---- MODULE Spec2Model ----
(***************************************************************************)
(* Model of the iboardbot-web preview/placement editor (static/js).        *)
(* Two Konva variants of scripts.js are modelled, selected by `impl`:      *)
(*   "offset" : src/static/js/scripts.js (centre offset, transformer       *)
(*              created by drawPreview)                                    *)
(*   "fit"    : src/unnamed/part_002 lines 1-203 (fitGroup, one            *)
(*              transformer on its own layer, stage click handler)         *)
(* JavaScript numbers are modelled as exact extended rationals <<n, d>>:   *)
(* d > 0 is the fraction n/d in lowest terms, <<1,0>> / <<-1,0>> are       *)
(* +Infinity / -Infinity and <<0,0>> is NaN.                               *)
(***************************************************************************)
EXTENDS Integers, Sequences, FiniteSets, TLC

\* ---------------------------------------------------------------- bounds
MaxLoads == 2      \* file-input change events in a run
MaxPrints == 1     \* clicks on the print button in a run
MaxEdits == 1      \* drag / resize gestures in a run

\* ------------------------------------------------------ program constants
IBB_WIDTH == 358
IBB_HEIGHT == 123
PREVIEW_SCALE_FACTOR == 3
MARGIN == 10

\* ------------------------------------------------- numbers (JS arithmetic)
Abs(i) == IF i < 0 THEN 0 - i ELSE i
Sign(i) == IF i < 0 THEN 0 - 1 ELSE IF i > 0 THEN 1 ELSE 0

RECURSIVE GCD(_, _)
GCD(a, b) == IF b = 0 THEN a ELSE GCD(b, a % b)

\* canonical form of the quotient n/d of two integers
Norm(n, d) ==
    IF d = 0 THEN <<Sign(n), 0>>
    ELSE LET g == GCD(Abs(n), Abs(d))
         IN  <<Sign(d) * Sign(n) * (Abs(n) \div g), Abs(d) \div g>>

R(i) == <<i, 1>>
NaN == <<0, 0>>
IsFinite(a) == a[2] # 0
IsNaN(a) == a = NaN

RDiv(a, b) ==
    IF IsNaN(a) \/ IsNaN(b) THEN NaN
    ELSE IF a[2] = 0 /\ b[2] = 0 THEN NaN
    ELSE IF b[2] = 0 THEN R(0)
    ELSE IF b[1] = 0 THEN <<Sign(a[1]), 0>>   \* x/0 = +-Infinity, 0/0 = NaN
    ELSE Norm(a[1] * b[2], a[2] * b[1])

RMul(a, b) == Norm(a[1] * b[1], a[2] * b[2])

RAdd(a, b) ==
    IF a[2] = 0 /\ b[2] = 0
    THEN IF a = b THEN a ELSE NaN
    ELSE Norm(a[1] * b[2] + b[1] * a[2], a[2] * b[2])

RNeg(a) == <<0 - a[1], a[2]>>
RSub(a, b) == RAdd(a, RNeg(b))

\* a > b as JavaScript evaluates it (false when either side is NaN)
RGt(a, b) ==
    IF IsNaN(a) \/ IsNaN(b) THEN FALSE
    ELSE IF a[2] = 0 /\ b[2] = 0 THEN a[1] > b[1]
    ELSE a[1] * b[2] > b[1] * a[2]

\* JSON.stringify of a number: non-finite numbers are written as null
JsonNum(a) == IF IsFinite(a) THEN a ELSE <<"null">>

\* ------------------------------------------------------------- geometry
SetMin(S) == CHOOSE m \in S : \A e \in S : m <= e
SetMax(S) == CHOOSE m \in S : \A e \in S : m >= e

\* polyline.map((pair) => [pair.x, pair.y]).flat()
RECURSIVE FlatPoints(_)
FlatPoints(polyline) ==
    IF polyline = <<>> THEN <<>>
    ELSE <<Head(polyline).x, Head(polyline).y>> \o FlatPoints(Tail(polyline))

\* the Konva.Line children built by drawPreview, one per polyline
Lines(polylines) == [i \in 1..Len(polylines) |-> FlatPoints(polylines[i])]

Coords(lines, par) ==
    UNION {{lines[i][j] : j \in {k \in 1..Len(lines[i]) : k % 2 = par}}
           : i \in 1..Len(lines)}
Xs(lines) == Coords(lines, 1)
Ys(lines) == Coords(lines, 0)

\* group.getClientRect({skipShadow, skipStroke}) of a group that has no
\* transform yet: the bounds of all points, all zero for a group of no lines
ClientRect(lines) ==
    IF Xs(lines) = {}
    THEN [x |-> R(0), y |-> R(0), width |-> R(0), height |-> R(0)]
    ELSE [x |-> R(SetMin(Xs(lines))), y |-> R(SetMin(Ys(lines))),
          width |-> R(SetMax(Xs(lines)) - SetMin(Xs(lines))),
          height |-> R(SetMax(Ys(lines)) - SetMin(Ys(lines)))]

\* the if/else that picks the binding axis and the uniform scale
FitScale(rect, targetSize) ==
    IF RGt(RDiv(rect.width, rect.height),
           RDiv(targetSize.width, targetSize.height))
    THEN RDiv(targetSize.width, rect.width)
    ELSE RDiv(targetSize.height, rect.height)

TargetSize(bounds, margin) ==
    [width |-> R(bounds.width - margin), height |-> R(bounds.height - margin)]

Bounds == [width |-> IBB_WIDTH, height |-> IBB_HEIGHT]

NewGroup(gen, file, lines) ==
    [gen |-> gen, file |-> file, lines |-> lines,
     x |-> R(0), y |-> R(0), scaleX |-> R(1), scaleY |-> R(1),
     offsetX |-> R(0), offsetY |-> R(0), rotation |-> 0,
     originalLeft |-> R(0), originalTop |-> R(0)]

\* fitGroup(group, bounds, margin) of the "fit" variant
fitGroup(group, bounds, margin) ==
    LET rect == ClientRect(group.lines)
        s == FitScale(rect, TargetSize(bounds, margin))
        \* second getClientRect, now with the scale applied
        rect2 == [x |-> RMul(s, rect.x), y |-> RMul(s, rect.y),
                  width |-> RMul(s, rect.width),
                  height |-> RMul(s, rect.height)]
    IN  [group EXCEPT
           !.scaleX = s, !.scaleY = s,
           !.x = RAdd(group.x,
                      RSub(RDiv(RSub(R(IBB_WIDTH), rect2.width), R(2)), rect2.x)),
           !.y = RAdd(group.y,
                      RSub(RDiv(RSub(R(IBB_HEIGHT), rect2.height), R(2)), rect2.y))]

\* the fit done inline by drawPreview of the "offset" variant
fitOffset(group) ==
    LET rect == ClientRect(group.lines)
        s == FitScale(rect, TargetSize(Bounds, MARGIN))
    IN  [group EXCEPT
           !.offsetX = RAdd(RDiv(rect.width, R(2)), rect.x),
           !.offsetY = RAdd(RDiv(rect.height, R(2)), rect.y),
           !.scaleX = s, !.scaleY = s,
           !.x = RDiv(R(IBB_WIDTH), R(2)),
           !.y = RDiv(R(IBB_HEIGHT), R(2))]

\* drawPreview of the fabric.js variant: the polylines are scaled to preview
\* pixels, grouped (the group's bounds are those of the points; the width of
\* the strokes is left out), scaled to the height or to the width of the
\* canvas less `offset` on each side and placed with the middle of the top
\* edge at (width / 2, offset). x, y are the group's left, top in pixels.
fabricFit(group) ==
    LET rect == ClientRect(group.lines)
        gw == RMul(R(PREVIEW_SCALE_FACTOR), rect.width)
        gh == RMul(R(PREVIEW_SCALE_FACTOR), rect.height)
        offset == 5 * PREVIEW_SCALE_FACTOR
        height == IBB_HEIGHT * PREVIEW_SCALE_FACTOR
        width == IBB_WIDTH * PREVIEW_SCALE_FACTOR
        s == IF RGt(RDiv(gh, gw), RDiv(R(height), R(width)))
             THEN RDiv(R(height - offset * 2), gh)
             ELSE RDiv(R(width - offset * 2), gw)
    IN  [group EXCEPT
           !.originalLeft = RMul(R(PREVIEW_SCALE_FACTOR), rect.x),
           !.originalTop = RMul(R(PREVIEW_SCALE_FACTOR), rect.y),
           !.scaleX = s, !.scaleY = s,
           !.x = RSub(RDiv(R(width), R(2)), RDiv(RMul(s, gw), R(2))),
           !.y = R(offset)]

\* ------------------------------------------------ environment (inputs)
\* the two Konva variants of scripts.js
Impls == {"offset", "fit"}
\* the variants whose fit and submission are modelled
FitImpls == Impls \cup {"fabric"}

\* raw texts of the files the user can pick; "" is a file with no text
Files == {"", "X", "Y", "E"}

P(x, y) == [x |-> x, y |-> y]

\* body of a successful /preview/ response for a file text
Decomp(file) ==
    CASE file = "X" -> << <<P(0, 0), P(10, 0), P(10, 10)>> >>
      [] file = "Y" -> << <<P(20, 30), P(220, 30)>>, <<P(20, 30), P(220, 50)>> >>
      [] OTHER -> << >>

\* outcome of a fetch: an HTTP status, or NetErr when the promise rejects
NetErr == 0
PreviewStatuses == {200, 400, 500, NetErr}
PrintStatuses == {204, 200, 400, NetErr}
Modes == {"once", "schedule"}

\* r.ok
RespOk(status) == status >= 200 /\ status <= 299

\* pointer gestures offered by the canvas library
DragDeltas == {<<R(10), R(0 - 4)>>}
ScaleFactors == {<<R(2), R(1)>>, <<Norm(1, 2), Norm(1, 2)>>}
ClickTargets == {"clickStage", "clickGroup", "clickHandle"}
\* the transformer itself, as a member of its own node list
TrSelf == 0 - 1

\* ----------------------------------------------------------------- state
VARIABLES
    impl,       \* which variant of scripts.js runs
    svgText,    \* svg.text
    layer,      \* children of `layer` named 'polylines', in order
    tr,         \* nodes held by the live transformer (gen of a group, TrSelf)
    readers,    \* per file text, the FileReaders that have not fired onload
    previews,   \* loadSvg calls suspended at an await
    prints,     \* printObject callbacks suspended at await fetch('/print/')
    shown,      \* the alert() messages shown by the handler that ran last
    cnt,        \* event counters
    ev          \* name of the handler that ran last

vars == <<impl, svgText, layer, tr, readers, previews, prints, shown, cnt, ev>>

\* alert() texts; the HTTP error text carries the status
NoObjectMsg == <<"No object loaded. Please choose an SVG file first.", 0>>
InvalidMsg == <<"Error. Did you upload a valid SVG file?", 0>>
HttpMsg(status) == <<"Error (HTTP status)", status>>
PrintingMsg == <<"Printing!", 0>>
ScheduledMsg == <<"Scheduled printing!", 0>>

\* the else branch of loadSvg / printObject
ErrorAlert(status) ==
    IF status = 400 THEN <<InvalidMsg>> ELSE <<HttpMsg(status)>>

Init ==
    /\ impl \in Impls
    /\ svgText = ""
    /\ layer = <<>>
    /\ tr = {}
    /\ readers = [f \in Files |-> 0]
    /\ previews = {}
    /\ prints = {}
    /\ shown = <<>>
    /\ cnt = [loads |-> 0, reqs |-> 0, clicks |-> 0, submits |-> 0,
              posts |-> 0, edits |-> 0]
    /\ ev = "ready"

\* ------------------------------------------------------------- handlers
\* fileInput 'change' listener with files[0] = f (it does nothing when
\* files[0] is undefined): a FileReader starts reading f
FileChange(f) ==
    /\ cnt.loads < MaxLoads
    /\ cnt' = [cnt EXCEPT !.loads = @ + 1]
    /\ readers' = [readers EXCEPT ![f] = @ + 1]
    /\ shown' = <<>>
    /\ ev' = "change"
    /\ UNCHANGED <<impl, svgText, layer, tr, previews, prints>>

\* fr.onload: svg.text = result; loadSvg(...) up to its first await
FrOnload(f) ==
    /\ readers[f] > 0
    /\ readers' = [readers EXCEPT ![f] = @ - 1]
    /\ svgText' = f
    /\ IF f # ""
       THEN /\ previews' = previews \cup
                  {[id |-> cnt.reqs + 1, file |-> f, st |-> "fetch"]}
            /\ cnt' = [cnt EXCEPT !.reqs = @ + 1]
       ELSE UNCHANGED <<previews, cnt>>
    /\ shown' = <<>>
    /\ ev' = "onload"
    /\ UNCHANGED <<impl, layer, tr, prints>>

\* a layer that is not cleared before drawing
keepChildren(l) == l

\* layer.destroyChildren()
destroyChildren(l) == <<>>

\* the group as a variant's drawPreview scales and places it
fitted(variant, group) ==
    IF variant = "fit" THEN fitGroup(group, Bounds, MARGIN)
    ELSE IF variant = "fabric" THEN fabricFit(group)
    ELSE fitOffset(group)

\* drawPreview(layer, polylines): the layer's polylines groups afterwards
drawPreview(l, gen, file, polylines) ==
    Append(l, fitted(impl, NewGroup(gen, file, Lines(polylines))))

\* a drawPreview that attaches the transformer in every variant
trAlwaysAttached(gen) == {gen}

\* the transformer's nodes after destroyChildren + drawPreview
trAfterDraw(gen) == IF impl = "offset" THEN {gen} ELSE tr

\* what the body of an error response of /preview/ can be: JSON with a
\* details field, JSON without one, or not JSON
ErrorBodies == {"details", "nodetails", "nojson"}

\* the event of a failed /preview/ call tells whether its body had details
FailedEv(body) ==
    IF body = "details" THEN "previewFailedDetails" ELSE "previewFailed"

\* a loadSvg that clears the layer as soon as any response arrives
PreviewResponseClearing(q, status) ==
    /\ q \in previews /\ q.st = "fetch"
    /\ IF status = NetErr
       THEN /\ previews' = previews \ {q}
            /\ shown' = <<>>
       ELSE IF RespOk(status)
       THEN /\ previews' = (previews \ {q}) \cup {[q EXCEPT !.st = "json"]}
            /\ shown' = <<>>
       ELSE /\ previews' = previews \ {q}
            /\ shown' = ErrorAlert(status)
    /\ layer' = <<>>
    /\ \E body \in ErrorBodies :
          ev' = IF status = NetErr THEN "previewRejected"
                ELSE IF RespOk(status) THEN "previewOk" ELSE FailedEv(body)
    /\ UNCHANGED <<impl, svgText, tr, readers, prints, cnt>>

\* loadSvg resumes from await fetch('/preview/')
PreviewResponse(q, status) ==
    /\ q \in previews /\ q.st = "fetch"
    /\ IF status = NetErr
       THEN /\ previews' = previews \ {q}
            /\ shown' = <<>>
       ELSE IF RespOk(status)
       THEN /\ previews' = (previews \ {q}) \cup {[q EXCEPT !.st = "json"]}
            /\ shown' = <<>>
       ELSE /\ previews' = previews \ {q}
            /\ shown' = ErrorAlert(status)
    /\ \E body \in ErrorBodies :
          ev' = IF status = NetErr THEN "previewRejected"
                ELSE IF RespOk(status) THEN "previewOk" ELSE FailedEv(body)
    /\ UNCHANGED <<impl, svgText, layer, tr, readers, prints, cnt>>

\* a loadSvg that draws a response only while nothing is displayed
PreviewBodyFirstOnly(q, parsed) ==
    /\ q \in previews /\ q.st = "json"
    /\ previews' = previews \ {q}
    /\ IF parsed /\ layer = <<>>
       THEN /\ layer' = drawPreview(destroyChildren(layer), q.id, q.file,
                                    Decomp(q.file))
            /\ tr' = trAfterDraw(q.id)
       ELSE UNCHANGED <<layer, tr>>
    /\ shown' = <<>>
    /\ ev' = IF ~parsed THEN "previewBadBody"
             ELSE IF layer = <<>> THEN "previewDrawn" ELSE "previewReplaced"
    /\ UNCHANGED <<impl, svgText, readers, prints, cnt>>

\* loadSvg resumes from await r.json()
PreviewBody(q, parsed) ==
    /\ q \in previews /\ q.st = "json"
    /\ previews' = previews \ {q}
    /\ IF parsed
       THEN /\ layer' = drawPreview(destroyChildren(layer), q.id, q.file,
                                    Decomp(q.file))
            /\ tr' = trAfterDraw(q.id)
       ELSE UNCHANGED <<layer, tr>>
    /\ shown' = <<>>
    /\ ev' = IF ~parsed THEN "previewBadBody"
             ELSE IF layer = <<>> THEN "previewDrawn" ELSE "previewReplaced"
    /\ UNCHANGED <<impl, svgText, readers, prints, cnt>>

\* dx, dy of a variant's printObject
postedOffset(variant, obj) ==
    IF variant = "offset"
    THEN [dx |-> RAdd(obj.x, obj.offsetX), dy |-> RAdd(obj.y, obj.offsetY)]
    ELSE IF variant = "fabric"
    THEN [dx |-> RDiv(RSub(obj.x, obj.originalLeft), R(PREVIEW_SCALE_FACTOR)),
          dy |-> RDiv(RSub(obj.y, obj.originalTop), R(PREVIEW_SCALE_FACTOR))]
    ELSE [dx |-> obj.x, dy |-> obj.y]

\* body of the /print/ request built by printObject for one child
PrintPayload(obj, mode) ==
    LET dx == postedOffset(impl, obj).dx
        dy == postedOffset(impl, obj).dy
    IN  [svg |-> svgText,
         offset_x |-> JsonNum(dx), offset_y |-> JsonNum(dy),
         scale_x |-> JsonNum(obj.scaleX), scale_y |-> JsonNum(obj.scaleY),
         mode |-> mode]

\* layer.getChildren((node) => node.hasName('polylines'))
getChildren(l) == l

\* the requests posted by children.forEach(...) up to await fetch('/print/');
\* `of` and `gen` record which group the placement was read from
PostedBy(children, mode) ==
    {[id |-> cnt.posts + i, body |-> PrintPayload(children[i], mode),
      of |-> children[i].file, gen |-> children[i].gen]
     : i \in 1..Len(children)}

\* a printObject that tests svg.text instead of the layer's children
PrintClickTextGuard(mode) ==
    /\ cnt.clicks < MaxPrints
    /\ LET children == getChildren(layer)
       IN  IF svgText = ""
           THEN /\ shown' = <<NoObjectMsg>>
                /\ cnt' = [cnt EXCEPT !.clicks = @ + 1]
                /\ UNCHANGED prints
           ELSE /\ prints' = prints \cup PostedBy(children, mode)
                /\ cnt' = [cnt EXCEPT !.clicks = @ + 1, !.submits = @ + 1,
                                      !.posts = @ + Len(children)]
                /\ shown' = <<>>
    /\ ev' = "print"
    /\ UNCHANGED <<impl, svgText, layer, tr, readers, previews>>

\* print 'click' listener: printObject(svg, layer)
PrintClick(mode) ==
    /\ cnt.clicks < MaxPrints
    /\ LET children == getChildren(layer)
       IN  IF Len(children) = 0
           THEN /\ shown' = <<NoObjectMsg>>
                /\ cnt' = [cnt EXCEPT !.clicks = @ + 1]
                /\ UNCHANGED prints
           ELSE /\ prints' = prints \cup PostedBy(children, mode)
                /\ cnt' = [cnt EXCEPT !.clicks = @ + 1, !.submits = @ + 1,
                                      !.posts = @ + Len(children)]
                /\ shown' = <<>>
    /\ ev' = "print"
    /\ UNCHANGED <<impl, svgText, layer, tr, readers, previews>>

PrintAlerts(p, status) ==
    IF status = NetErr THEN <<>>
    ELSE IF status = 204
    THEN IF p.body.mode = "once" THEN <<PrintingMsg>> ELSE <<ScheduledMsg>>
    ELSE ErrorAlert(status)

PrintEv(status) ==
    IF status = NetErr THEN "printRejected"
    ELSE IF status = 204 THEN "printOk" ELSE "printFailed"

\* a callback that clears the preview once the print was accepted
PrintResponseClears(p, status) ==
    /\ p \in prints
    /\ prints' = prints \ {p}
    /\ shown' = PrintAlerts(p, status)
    /\ layer' = IF status = 204 THEN <<>> ELSE layer
    /\ ev' = PrintEv(status)
    /\ UNCHANGED <<impl, svgText, tr, readers, previews, cnt>>

\* a callback that posts the request again when it was not accepted
PrintResponseRetry(p, status) ==
    /\ p \in prints
    /\ IF status = 204
       THEN prints' = prints \ {p} /\ cnt' = cnt
       ELSE /\ prints' = (prints \ {p}) \cup {[p EXCEPT !.id = cnt.posts + 1]}
            /\ cnt' = [cnt EXCEPT !.posts = @ + 1]
    /\ shown' = PrintAlerts(p, status)
    /\ ev' = PrintEv(status)
    /\ UNCHANGED <<impl, svgText, layer, tr, readers, previews>>

\* a forEach callback of printObject resumes from await fetch('/print/')
PrintResponse(p, status) ==
    /\ p \in prints
    /\ prints' = prints \ {p}
    /\ shown' = PrintAlerts(p, status)
    /\ ev' = PrintEv(status)
    /\ UNCHANGED <<impl, svgText, layer, tr, readers, previews, cnt>>

\* a group the pointer can hit: it has strokes at finite positions
Hittable(g) ==
    /\ Len(g.lines) > 0
    /\ IsFinite(g.scaleX) /\ IsFinite(g.scaleY)
    /\ IsFinite(g.x) /\ IsFinite(g.y)

\* the transformer shows handles around a group of the layer
HandlesOn(g) == g.gen \in tr

\* a click listener that always selects the group that was hit
clickHandlerNoToggle(parent, onStage) ==
    IF onStage THEN {} ELSE {parent}

\* stage.on('click tap', ...) of the "fit" variant; the "offset" variant
\* registers no such listener
clickHandler(parent, onStage) ==
    IF onStage THEN {}
    ELSE IF parent \notin tr THEN {parent}
    ELSE {}

StageClick(target) ==
    /\ \/ /\ target = "clickStage"
          /\ tr' = IF impl = "fit" THEN clickHandler(TrSelf, TRUE) ELSE tr
       \/ /\ target = "clickGroup"
          /\ \E i \in 1..Len(layer) :
                /\ Hittable(layer[i])
                /\ tr' = IF impl = "fit"
                         THEN clickHandler(layer[i].gen, FALSE) ELSE tr
       \/ /\ target = "clickHandle"
          /\ \E i \in 1..Len(layer) : Hittable(layer[i]) /\ HandlesOn(layer[i])
          /\ tr' = IF impl = "fit" THEN clickHandler(TrSelf, FALSE) ELSE tr
    /\ shown' = <<>>
    /\ ev' = target
    /\ UNCHANGED <<impl, svgText, layer, readers, previews, prints, cnt>>

\* dragging the group (draggable: true) moves its position
dragged(g, d) == [g EXCEPT !.x = RAdd(@, d[1]), !.y = RAdd(@, d[2])]

Drag(i, d) ==
    /\ cnt.edits < MaxEdits
    /\ i \in 1..Len(layer) /\ Hittable(layer[i])
    /\ layer' = [layer EXCEPT ![i] = dragged(@, d)]
    /\ cnt' = [cnt EXCEPT !.edits = @ + 1]
    /\ shown' = <<>>
    /\ ev' = "drag"
    /\ UNCHANGED <<impl, svgText, tr, readers, previews, prints>>

\* pulling the bottom-right handle of the transformer: the scale is
\* multiplied and the top-left corner of the content stays where it was
resized(g, f) ==
    LET rect == ClientRect(g.lines)
        sx == RMul(g.scaleX, f[1])
        sy == RMul(g.scaleY, f[2])
    IN  [g EXCEPT
           !.scaleX = sx, !.scaleY = sy,
           !.x = RAdd(@, RMul(RSub(g.scaleX, sx), RSub(rect.x, g.offsetX))),
           !.y = RAdd(@, RMul(RSub(g.scaleY, sy), RSub(rect.y, g.offsetY)))]

\* a transformer created with rotateEnabled: true
rotateEnabledOn == TRUE

\* the rotateEnabled option both variants pass to new Konva.Transformer
rotateEnabled == FALSE

\* the turns a pull on an anchor can apply: the rotater anchor exists only
\* when rotateEnabled is set
AnchorRotations == IF rotateEnabled THEN {0, 90} ELSE {0}

rotated(g, rot) == [g EXCEPT !.rotation = (@ + rot) % 360]

\* the user pulls an anchor of the transformer
Resize(i, f) ==
    /\ cnt.edits < MaxEdits
    /\ i \in 1..Len(layer) /\ Hittable(layer[i]) /\ HandlesOn(layer[i])
    /\ \E rot \in AnchorRotations :
          layer' = [layer EXCEPT ![i] = rotated(resized(@, f), rot)]
    /\ cnt' = [cnt EXCEPT !.edits = @ + 1]
    /\ shown' = <<>>
    /\ ev' = "resize"
    /\ UNCHANGED <<impl, svgText, tr, readers, previews, prints>>

Next ==
    \/ \E f \in Files : FileChange(f)
    \/ \E f \in Files : FrOnload(f)
    \/ \E q \in previews, status \in PreviewStatuses : PreviewResponse(q, status)
    \/ \E q \in previews, parsed \in BOOLEAN : PreviewBody(q, parsed)
    \/ \E mode \in Modes : PrintClick(mode)
    \/ \E p \in prints, status \in PrintStatuses : PrintResponse(p, status)
    \/ \E target \in ClickTargets : StageClick(target)
    \/ \E i \in 1..Len(layer), d \in DragDeltas : Drag(i, d)
    \/ \E i \in 1..Len(layer), f \in ScaleFactors : Resize(i, f)

Spec == Init /\ [][Next]_vars

\* every fetch('/preview/') is answered or fails, and the continuation of a
\* resolved await runs
FairSpec ==
    /\ Spec
    /\ WF_vars(\E q \in previews, status \in PreviewStatuses :
                   PreviewResponse(q, status))
    /\ WF_vars(\E q \in previews, parsed \in BOOLEAN : PreviewBody(q, parsed))

\* ------------------------------------------- the fit on arbitrary content
\* response bodies of /preview/ with one two-point polyline between grid
\* points, and the bodies of X and Y
XCoords == {0, 10, 40, 300, 348}
YCoords == {0, 10, 100, 113}
BoxPolylines ==
    {<< <<P(c[1], c[3]), P(c[2], c[4])>> >> :
        c \in {d \in XCoords \X XCoords \X YCoords \X YCoords : d[1] <= d[2]}}
FitInputs == BoxPolylines \cup {Decomp("X"), Decomp("Y")}

\* fr.onload and loadSvg run to the end on a file "B" whose /preview/
\* response is ok and carries the body `polylines`
FitLoad(polylines) ==
    /\ ev = "ready"
    /\ svgText' = "B"
    /\ layer' = drawPreview(destroyChildren(layer), 1, "B", polylines)
    /\ tr' = trAfterDraw(1)
    /\ cnt' = [cnt EXCEPT !.loads = @ + 1, !.reqs = @ + 1]
    /\ shown' = <<>>
    /\ ev' = "previewDrawn"
    /\ UNCHANGED <<impl, readers, previews, prints>>

\* Init with any of the three variants
FitInit ==
    /\ impl \in FitImpls
    /\ svgText = ""
    /\ layer = <<>>
    /\ tr = {}
    /\ readers = [f \in Files |-> 0]
    /\ previews = {}
    /\ prints = {}
    /\ shown = <<>>
    /\ cnt = [loads |-> 0, reqs |-> 0, clicks |-> 0, submits |-> 0,
              posts |-> 0, edits |-> 0]
    /\ ev = "ready"

\* selection and gestures of the fabric.js canvas are the library's own and
\* stay outside the model
FitNext ==
    \/ \E polylines \in FitInputs : FitLoad(polylines)
    \/ \E mode \in Modes : PrintClick(mode)
    \/ impl \in Impls /\ \E target \in ClickTargets : StageClick(target)
    \/ impl \in Impls /\ \E i \in 1..Len(layer), d \in DragDeltas : Drag(i, d)
    \/ impl \in Impls /\ \E i \in 1..Len(layer), f \in ScaleFactors : Resize(i, f)

FitSpec == FitInit /\ [][FitNext]_vars

\* group.getClientRect({ skipShadow: true, skipStroke: true }) of a group
\* with its transform: the bounds of its points on the device-unit surface
DisplayedRect(g) ==
    LET rect == ClientRect(g.lines)
    IN  [x |-> RAdd(g.x, RMul(g.scaleX, RSub(rect.x, g.offsetX))),
         y |-> RAdd(g.y, RMul(g.scaleY, RSub(rect.y, g.offsetY))),
         width |-> RMul(g.scaleX, rect.width),
         height |-> RMul(g.scaleY, rect.height)]

\* the same bounds of a fabric.js group, whose left, top and size are in
\* preview pixels, PREVIEW_SCALE_FACTOR to the device unit
fabricRect(g) ==
    LET rect == ClientRect(g.lines)
        k == R(PREVIEW_SCALE_FACTOR)
    IN  [x |-> RDiv(g.x, k), y |-> RDiv(g.y, k),
         width |-> RDiv(RMul(g.scaleX, RMul(k, rect.width)), k),
         height |-> RDiv(RMul(g.scaleY, RMul(k, rect.height)), k)]

\* where the content of the displayed group lies on the device-unit surface
ContentRect(g) == IF impl = "fabric" THEN fabricRect(g) ELSE DisplayedRect(g)

\* content whose bounding box has a width and a height
NonDegenerate(g) ==
    ClientRect(g.lines).width # R(0) /\ ClientRect(g.lines).height # R(0)

TypeOK ==
    /\ impl \in Impls
    /\ svgText \in Files
    /\ tr \subseteq (1..MaxLoads) \cup {TrSelf}
    /\ Len(shown) <= 1

\* ------------------------------------------------------ states of §4.4
\* no content loaded / content rendered without handles / handles active
Empty == layer = <<>>
Selected == layer # <<>> /\ HandlesOn(layer[1])
Loaded == layer # <<>> /\ ~HandlesOn(layer[1])

DrawnEvs == {"previewDrawn", "previewReplaced"}
PreviewFailEvs ==
    {"previewFailed", "previewFailedDetails", "previewRejected",
     "previewBadBody"}
PrintReplyEvs == {"printOk", "printFailed", "printRejected"}
ClickEvs == {"clickStage", "clickGroup", "clickHandle"}
ErrorMsgs == {InvalidMsg} \cup {HttpMsg(st) : st \in PreviewStatuses \cup PrintStatuses}

\* ---------------------------------------------------------------- claims

\* C1: stale-response discard. Once the response of a later load has been
\* applied, the response of an earlier load never replaces it: the displayed
\* group never goes back to that of an older request.
C1_StaleResponseDiscarded ==
    [][(layer # <<>> /\ layer' # <<>>) => layer'[1].gen >= layer[1].gen]_vars

\* C2: PreviewSession consistency. The svg text of every posted submission is
\* the text of the file whose decomposition produced the group the placement
\* was read from.
C2_SubmissionPairsTextWithItsGroup ==
    \A p \in prints : p.body.svg = p.of

\* C3: session replacement atomicity. The layer never holds more than one
\* polylines group, and right after a successful load it holds exactly one
\* group whose strokes are the polylines of that response, one stroke each.
C3_OneGroupOnlyNewStrokes ==
    /\ Len(layer) <= 1
    /\ ev \in DrawnEvs =>
          /\ Len(layer) = 1
          /\ Len(layer[1].lines) = Len(Decomp(layer[1].file))
          /\ \A i \in 1..Len(layer[1].lines) :
                layer[1].lines[i] = FlatPoints(Decomp(layer[1].file)[i])

\* a load of Y's two polylines has just replaced a displayed group
C3_Witness ==
    /\ ev = "previewReplaced"
    /\ layer[1].file = "Y" /\ Len(layer[1].lines) = 2

\* C4: empty-state guard. A submit while the layer holds no group sends no
\* request to /print/ and shows the "no object loaded" notice.
C4_EmptySubmitSendsNothing ==
    [][(ev' = "print" /\ Empty) =>
          /\ prints' = prints
          /\ cnt'.posts = cnt.posts
          /\ shown' = <<NoObjectMsg>>]_vars

\* submit in Empty after a load with empty text and a failed decomposition
C4_Witness ==
    /\ ev = "print" /\ Empty /\ shown = <<NoObjectMsg>>
    /\ cnt.loads = 2 /\ cnt.reqs = 1 /\ previews = {}
    /\ svgText = "" /\ \A f \in Files : readers[f] = 0

\* C5: empty PolylineSet. No group without strokes is ever in the layer (a
\* decomposition that succeeds with no polylines leaves the state Empty).
C5_EmptySetLeavesNoGroup ==
    \A i \in 1..Len(layer) : layer[i].lines # <<>>

\* C6: a file selection whose decomposition fails leaves the preview as it
\* was: neither the selection nor the failure changes the group, its
\* placement or the handles.
C6_FailedLoadLeavesPreview ==
    [][ev' \in PreviewFailEvs \cup {"change", "onload", "previewOk"} =>
          (layer' = layer /\ tr' = tr)]_vars

\* a decomposition has just failed with 400 while a group is displayed
C6_Witness ==
    ev = "previewFailed" /\ shown = <<InvalidMsg>> /\ layer # <<>>

\* C7: submission is read-only. A submit and its response change neither the
\* group, its placement nor svg.text, and the layer changes only by a
\* successful load, a drag or a resize.
C7_SubmitReadOnly ==
    [][/\ ev' \in PrintReplyEvs \cup {"print"} =>
             (layer' = layer /\ tr' = tr /\ svgText' = svgText)
       /\ layer' # layer => ev' \in DrawnEvs \cup {"drag", "resize"}]_vars

\* a submission has just been answered with an error while a group is shown
C7_Witness ==
    ev = "printFailed" /\ layer # <<>> /\ Len(shown) = 1

\* C8: one request per submit. The number of requests posted to /print/
\* equals the number of submit actions taken with content loaded; a response
\* never posts another one.
C8_OneRequestPerSubmit ==
    /\ cnt.posts = cnt.submits
    /\ Cardinality(prints) <= cnt.posts

\* a submission failed and nothing was sent again
C8_Witness ==
    ev \in {"printFailed", "printRejected"} /\ cnt.submits = 1 /\ prints = {}

\* C9: every failing decomposition or submission call is followed by exactly
\* one error notification, and a successful call by none.
C9_FailureAlertsOnce ==
    /\ ev \in PreviewFailEvs \cup {"printFailed", "printRejected"} =>
          (Len(shown) = 1 /\ shown[1] \in ErrorMsgs)
    /\ ev \in DrawnEvs \cup {"printOk"} =>
          \A i \in 1..Len(shown) : shown[i] \notin ErrorMsgs

\* C10 as claimed: a click on the group always gives Selected and a click on
\* empty canvas always gives Loaded.
C10_ClickTargetDecides ==
    [][/\ ev' = "clickGroup" => Selected'
       /\ (ev' = "clickStage" /\ ~Empty) => Loaded']_vars

\* C10 as amended: with the stage click listener ("fit") a click on empty
\* canvas gives Loaded and a click on the group toggles between Loaded and
\* Selected; without it ("offset") a click changes nothing.
C10_ClickToggles ==
    [][/\ (impl = "fit" /\ ev' = "clickStage" /\ ~Empty) => Loaded'
       /\ (impl = "fit" /\ ev' = "clickGroup") => (Selected' <=> ~Selected)
       /\ (impl = "offset" /\ ev' \in ClickEvs) => (tr' = tr /\ layer' = layer)]_vars

\* a click on the selected group has just removed the handles
C10_Witness ==
    impl = "fit" /\ ev = "clickGroup" /\ Loaded /\ tr = {}

\* C11 as claimed: a successful load always ends in Loaded, and handles
\* become active only by a later click on the group.
C11_LoadEndsLoaded ==
    [][/\ ev' \in DrawnEvs => Loaded'
       /\ (~Selected /\ Selected') => ev' = "clickGroup"]_vars

\* C11 as amended: where the transformer is attached by a click listener
\* ("fit") a successful load ends in Loaded and only a click on the group
\* gives it handles; where drawPreview attaches the transformer ("offset") a
\* successful load ends in Selected, with the handles on the new group.
C11_LoadEndsLoadedOrAttached ==
    [][/\ (impl = "fit" /\ ev' \in DrawnEvs) => Loaded'
       /\ (impl = "fit" /\ ~Selected /\ Selected') => ev' = "clickGroup"
       /\ (impl = "offset" /\ ev' \in DrawnEvs) =>
             (Selected' /\ tr' = {layer'[1].gen})]_vars

\* a load has just replaced a group that was selected, and the new group
\* has no handles
C11_Witness ==
    impl = "fit" /\ ev = "previewReplaced" /\ Loaded /\ tr # {}

\* the placement fields of a group: its translation and its scale
SamePlacementApart(g, h) ==
    [g EXCEPT !.x = h.x, !.y = h.y, !.scaleX = h.scaleX, !.scaleY = h.scaleY] = h

Target == TargetSize(Bounds, MARGIN)

\* the rule of the specification: width binds exactly when the content is
\* strictly wider in proportion than the target
WidthBinds(rect) ==
    RGt(RDiv(rect.width, rect.height), RDiv(Target.width, Target.height))

\* a load has just fitted content whose bounding box has a width and a height
JustFitted == ev = "previewDrawn" /\ NonDegenerate(layer[1])

\* the scale of g is uniform and positive, its content is no wider and no
\* higher than the target and exactly as large on the binding axis
FitsTarget(g) ==
    LET d == ContentRect(g)
    IN  /\ g.scaleX = g.scaleY
        /\ IsFinite(g.scaleX) /\ RGt(g.scaleX, R(0))
        /\ ~RGt(d.width, Target.width)
        /\ ~RGt(d.height, Target.height)
        /\ IF WidthBinds(ClientRect(g.lines))
           THEN d.width = Target.width
           ELSE d.height = Target.height

\* C13: fit correctness. Right after the load of content whose bounding box
\* has a width and a height, the scale is uniform and positive, the displayed
\* content is no wider and no higher than the target (the surface less the
\* margin), and it is exactly as large as the target on the binding axis.
C13_FitWithinTarget == JustFitted => FitsTarget(layer[1])

\* C13 for the two Konva variants alone
C13_KonvaFitWithinTarget ==
    (JustFitted /\ impl \in Impls) => FitsTarget(layer[1])

\* Konva content that binds on the width has just been fitted: it fills the
\* target's width and stays below its height
C13_KonvaWitness ==
    /\ JustFitted /\ impl \in Impls
    /\ WidthBinds(ClientRect(layer[1].lines))
    /\ ContentRect(layer[1]).width = Target.width
    /\ RGt(Target.height, ContentRect(layer[1]).height)

\* the axis a fitted group was bound on, read off its scale
BoundOnWidth(g) ==
    g.scaleX = RDiv(Target.width, ClientRect(g.lines).width)
BoundOnHeight(g) ==
    g.scaleX = RDiv(Target.height, ClientRect(g.lines).height)

\* C14: binding-axis rule. In every implementation the fit binds on the
\* width exactly when content.width / content.height is strictly greater than
\* target.width / target.height, the target being the surface shrunk by the
\* margin, and on the height otherwise, equal ratios included.
C14_SameBindingAxis ==
    JustFitted =>
        IF WidthBinds(ClientRect(layer[1].lines))
        THEN BoundOnWidth(layer[1])
        ELSE BoundOnHeight(layer[1])

\* C14 for the two Konva variants alone
C14_KonvaBindingAxis ==
    (JustFitted /\ impl \in Impls) =>
        IF WidthBinds(ClientRect(layer[1].lines))
        THEN BoundOnWidth(layer[1])
        ELSE BoundOnHeight(layer[1])

\* Konva content of exactly the target's proportions has just been fitted
C14_KonvaWitness ==
    /\ JustFitted /\ impl \in Impls
    /\ RDiv(ClientRect(layer[1].lines).width, ClientRect(layer[1].lines).height)
          = RDiv(Target.width, Target.height)
    /\ BoundOnHeight(layer[1])

\* the centre of the displayed content is the centre of the surface
Centred(g) ==
    LET d == ContentRect(g)
    IN  /\ RAdd(d.x, RDiv(d.width, R(2))) = RDiv(R(IBB_WIDTH), R(2))
        /\ RAdd(d.y, RDiv(d.height, R(2))) = RDiv(R(IBB_HEIGHT), R(2))

\* C15: centering. Right after the load of non-degenerate content the centre
\* of the displayed content's bounding box is (W/2, H/2), wherever the points
\* lie relative to the origin.
C15_CentredAfterLoad == JustFitted => Centred(layer[1])

\* C15 for the two Konva variants alone
C15_KonvaCentredAfterLoad ==
    (JustFitted /\ impl \in Impls) => Centred(layer[1])

\* Konva content away from the origin has just been centred
C15_KonvaWitness ==
    /\ JustFitted /\ impl = "fit" /\ Centred(layer[1])
    /\ RGt(ClientRect(layer[1].lines).x, R(0))
    /\ RGt(ClientRect(layer[1].lines).y, R(0))

\* the bounding box of the original points when each point p is mapped to
\* offset + scale * p with the posted values
Reapplied(body, lines) ==
    LET rect == ClientRect(lines)
    IN  [x |-> RAdd(body.offset_x, RMul(body.scale_x, rect.x)),
         y |-> RAdd(body.offset_y, RMul(body.scale_y, rect.y)),
         width |-> RMul(body.scale_x, rect.width),
         height |-> RMul(body.scale_y, rect.height)]

\* the request the submit that has just run posted for the displayed group
JustPosted(p) == ev = "print" /\ p \in prints /\ p.id = cnt.posts

\* C16: round-trip transform. The offset and scale a submit posts, applied
\* to the original points as offset + scale * p, give exactly the bounding
\* box of the group as it is displayed, after the load and after any drag or
\* resize.
C16_RoundTrip ==
    \A p \in prints :
        (JustPosted(p) /\ layer # <<>> /\ Hittable(layer[1])) =>
            Reapplied(p.body, layer[1].lines) = ContentRect(layer[1])

\* C16 for the variant that places the group by position alone
C16_FitRoundTrip ==
    \A p \in prints :
        (JustPosted(p) /\ layer # <<>> /\ Hittable(layer[1]) /\ impl = "fit") =>
            Reapplied(p.body, layer[1].lines) = ContentRect(layer[1])

\* a group that was resized has just been submitted by that variant
C16_FitWitness ==
    /\ impl = "fit" /\ ev = "print" /\ cnt.edits > 0
    /\ layer # <<>> /\ layer[1].scaleX # layer[1].scaleY
    /\ \E p \in prints :
          JustPosted(p) /\ Reapplied(p.body, layer[1].lines) = ContentRect(layer[1])

\* the offset that puts the centre of content scaled by s at the centre of
\* the surface
CentringOffset(rect, s) ==
    [dx |-> RSub(RDiv(R(IBB_WIDTH), R(2)),
                 RMul(s, RAdd(rect.x, RDiv(rect.width, R(2))))),
     dy |-> RSub(RDiv(R(IBB_HEIGHT), R(2)),
                 RMul(s, RAdd(rect.y, RDiv(rect.height, R(2)))))]

\* the posted placement is the fit scale on both axes and the centring
\* offset; the polyline (0,0),(10,0),(10,10) is bound on the height
PostsTheFit(body, lines) ==
    LET rect == ClientRect(lines)
        s == FitScale(rect, Target)
    IN  /\ body.scale_x = s /\ body.scale_y = s
        /\ body.offset_x = CentringOffset(rect, s).dx
        /\ body.offset_y = CentringOffset(rect, s).dy
        /\ lines = Lines(Decomp("X")) =>
              body.scale_x = RDiv(Target.height, rect.height)

\* C17: unmodified submit. When non-degenerate content is loaded and
\* submitted with no drag or resize in between, the posted scale_x and
\* scale_y are the fit scale and the posted offset is the centring offset;
\* for the polyline (0,0),(10,0),(10,10) the fit binds on the height.
C17_UnmodifiedSubmit ==
    \A p \in prints :
        (JustPosted(p) /\ cnt.edits = 0 /\ layer # <<>>
            /\ NonDegenerate(layer[1])) =>
                PostsTheFit(p.body, layer[1].lines)

\* C17 for the variant that places the group by position alone
C17_FitUnmodifiedSubmit ==
    \A p \in prints :
        (JustPosted(p) /\ cnt.edits = 0 /\ layer # <<>>
            /\ NonDegenerate(layer[1]) /\ impl = "fit") =>
                PostsTheFit(p.body, layer[1].lines)

\* that variant has just submitted the unmodified polyline (0,0),(10,0),(10,10)
C17_FitWitness ==
    /\ impl = "fit" /\ ev = "print" /\ cnt.edits = 0 /\ layer # <<>>
    /\ layer[1].lines = Lines(Decomp("X"))
    /\ \E p \in prints :
          /\ JustPosted(p)
          /\ p.body.scale_x = RDiv(R(113), R(10))
          /\ p.body.offset_x = RDiv(R(245), R(2))
          /\ p.body.offset_y = R(5)

\* offset and scale a variant posts when the response `lines` is loaded and
\* submitted with no drag or resize in between
UnmodifiedPlacement(variant, lines) ==
    LET g == fitted(variant, NewGroup(1, "B", lines))
    IN  [offset_x |-> JsonNum(postedOffset(variant, g).dx),
         offset_y |-> JsonNum(postedOffset(variant, g).dy),
         scale_x |-> JsonNum(g.scaleX), scale_y |-> JsonNum(g.scaleY)]

\* C18: the implementations are interchangeable. For the same decomposition
\* response, loaded and submitted without manipulation, every implementation
\* posts the offset_x, offset_y, scale_x and scale_y that the running one has
\* just posted.
C18_SamePayload ==
    \A p \in prints :
        (JustPosted(p) /\ cnt.edits = 0 /\ layer # <<>>
            /\ NonDegenerate(layer[1])) =>
                \A v \in FitImpls :
                    LET q == UnmodifiedPlacement(v, layer[1].lines)
                    IN  /\ q.offset_x = p.body.offset_x
                        /\ q.offset_y = p.body.offset_y
                        /\ q.scale_x = p.body.scale_x
                        /\ q.scale_y = p.body.scale_y

\* an alert text with the details of the error body added to it
WithDetails(msg) == Append(msg, "details")

\* C19: on a failed decomposition whose error body has a details field the
\* message shown includes the details; when the body has none or is not
\* JSON, the plain message is shown and nothing else happens.
C19_FailureShowsDetails ==
    /\ ev = "previewFailedDetails" =>
          \E m \in ErrorMsgs : shown = <<WithDetails(m)>>
    /\ ev = "previewFailed" =>
          \E m \in ErrorMsgs : shown = <<m>>

\* the loadSvg call of request id is still suspended
Pending(id) == \E q \in previews : q.id = id

\* C20: recoverability. Whatever happened before, the call of the latest
\* load does not stay suspended: its file gets displayed, or the call fails,
\* or a later load starts. When the successful response of the latest load
\* is applied, the layer holds exactly that file's polylines, which is the
\* file svg.text holds unless an empty file was read since; a submit with a
\* group displayed posts a request for it; and a load with empty text sends
\* no /preview/ request and shows no alert.
C20_Recoverable ==
    /\ [][/\ \A q \in previews :
                (q.st = "json" /\ q.id = cnt.reqs /\ q \notin previews'
                    /\ ev' \in DrawnEvs) =>
                        /\ Len(layer') = 1
                        /\ layer'[1].file = q.file
                        /\ layer'[1].lines = Lines(Decomp(q.file))
                        /\ svgText' \in {q.file, ""}
          /\ (ev' = "print" /\ layer # <<>>) =>
                \E p \in prints' \ prints : p.gen = layer[1].gen
          /\ (ev' = "onload" /\ svgText' = "") =>
                (previews' = previews /\ cnt'.reqs = cnt.reqs /\ shown' = <<>>)
         ]_vars
    /\ \A id \in 1..MaxLoads :
          (cnt.reqs = id /\ Pending(id)) ~>
              \/ layer # <<>> /\ layer[1].gen = id
              \/ cnt.reqs > id
              \/ ~Pending(id) /\ ev \in PreviewFailEvs

\* after a decomposition that failed and a submit that found nothing to
\* send, the file of a second load has just been displayed
C20_Witness ==
    /\ ev = "previewDrawn" /\ cnt.reqs = 2 /\ previews = {}
    /\ layer # <<>> /\ layer[1].gen = 2 /\ layer[1].file = svgText
    /\ cnt.clicks = 1 /\ cnt.submits = 0

\* the transformer holds nothing, or exactly the group that is in the layer
NodesAreLiveGroup == tr = {} \/ (layer # <<>> /\ tr = {layer[1].gen})

\* C21: in every reachable state the transformer's node set is empty or is
\* exactly the one polylines group in the layer: it never holds a group that
\* a later load destroyed, nor a node that is not the polylines group.
C21_TransformerHoldsLiveGroup == NodesAreLiveGroup

\* C21 for the variant whose drawPreview makes a new transformer per load
C21_OffsetTransformerHoldsLiveGroup == impl = "offset" => NodesAreLiveGroup

\* in that variant a second load has just replaced the group and its handles
C21_OffsetWitness ==
    /\ impl = "offset" /\ ev = "previewReplaced"
    /\ layer[1].gen = 2 /\ tr = {2}
====
